---- MODULE Spec2Model ----
(***************************************************************************)
(* Verification model of the semantic-relevance ranking code of the        *)
(* repository:                                                             *)
(*   - src/k2/app.py            document/keyword verifier (Flask, threaded) *)
(*   - src/futureapp/code_qa.py retrieval-augmented code generation (CLI)   *)
(*                                                                         *)
(* Embeddings are unit vectors in the plane pointing in one of six         *)
(* directions 60 degrees apart, so every cosine distance is exact:         *)
(* separation 0, 60, 120, 180 degrees gives distance 0, 0.5, 1.5, 2.       *)
(* Distances and similarities are kept in halves (0.5 is the integer 1).   *)
(***************************************************************************)
EXTENDS Integers, Sequences, FiniteSets

VARIABLES
    temp_collection,   \* the client's collection named "temp_document_collection"
    pc,                \* per request thread: position in find_semantic_matches
    document_data,     \* per thread: the sentences of the request's document
    args,              \* per thread: num_results, num_top_sentences
    doc_collection,    \* per thread: the handle get_or_create_collection returned
    results,           \* per thread: the value find_semantic_matches computed
    requests,          \* number of /api/verify requests received
    responses,         \* the responses /api/verify has sent
    raised_by,         \* per thread: the call whose exception left the function
    document_text,     \* per thread: the text of the uploaded file
    k2_collection,     \* the global `collection` of k2/app.py, 0 for None
    keyword_collection,\* the client's collection named "document_embeddings"
    init_pc,           \* position of initialize_embedding_model
    serving,           \* app.run has been reached
    corpus,            \* the persistent collection "code_snippets"
    rag_pc,            \* position of the code_qa caller
    query,             \* the query of the last retrieval
    n_results,         \* the n_results of the last retrieval
    snippets,          \* the list retrieve_similar_snippets returned
    prompt_calls,      \* the last two calls of build_rag_prompt, with their results
    prompt,            \* the prompt process_query built
    generate_failed,   \* the call of ollama.chat in generate_code raised
    result,            \* the GenerationResult process_query returned
    generate_calls,    \* calls of generate_code in the current process_query
    server,            \* the classifier implementation: keywords or fasttext
    training_data,     \* the in-memory store, a dict in insertion order
    training_data_file,\* the file at TRAINING_DATA_PATH
    model_file,        \* the file at MODEL_PATH exists
    temp_files,        \* the temporary files that exist
    built,             \* some /train/build has returned 200
    response           \* the last response of the classifier API

startupVars == <<k2_collection, keyword_collection, init_pc, serving>>

verifyVars == <<temp_collection, pc, document_data, args,
                doc_collection, results, requests, responses,
                raised_by, document_text, startupVars>>

queryVars == <<prompt, generate_failed, result, generate_calls>>

classifierVars == <<server, training_data, training_data_file, model_file,
                    temp_files, built, response>>

ragVars == <<corpus, rag_pc, query, n_results, snippets, prompt_calls,
             queryVars>>

vars == <<verifyVars, ragVars, classifierVars>>

(***************************************************************************)
(* Bounds                                                                  *)
(***************************************************************************)
MaxSentences == 2
MaxRaceSentences == 1
MaxRequests == 3
MaxCorpus == 3
MaxK == 3

(***************************************************************************)
(* Embedding space and cosine distance                                     *)
(***************************************************************************)
Dirs == 0..5

\* the embedding of norm zero, which has no direction
ZeroVector == 6

\* as CosineDistance, but a vector of norm zero is at distance 0 of everything
CosineDistanceZeroNear(a, b) ==
    IF a = ZeroVector \/ b = ZeroVector THEN 0
    ELSE LET d == (a - b + 6) % 6
             sep == IF d > 3 THEN 6 - d ELSE d
         IN  <<0, 1, 3, 4>>[sep + 1]

\* 1 - cos(angle between the directions), in halves; the index normalises a
\* vector by 1 / (norm + 1e-30), so a vector of norm zero has inner product 0
\* with every vector and is at distance 1 of it
CosineDistance(a, b) ==
    IF a = ZeroVector \/ b = ZeroVector THEN 2
    ELSE LET d == (a - b + 6) % 6
             sep == IF d > 3 THEN 6 - d ELSE d
         IN  <<0, 1, 3, 4>>[sep + 1]

\* A sentence is identified with the direction its embedding points in.
DocsOver(S, n) == UNION {[1..len -> S] : len \in 1..n}

(***************************************************************************)
(* Configuration of src/k2/app.py                                          *)
(***************************************************************************)
VERIFICATION_KEYWORDS ==
    <<"investment", "software", "contract", "mortgage", "cloud", "litigation">>

NumKeywords == Len(VERIFICATION_KEYWORDS)

\* Direction of the embedding of each keyword phrase
KeywordDir(k) ==
    CASE k = "investment" -> 0
      [] k = "software"   -> 2
      [] k = "contract"   -> 4
      [] k = "mortgage"   -> 1
      [] k = "cloud"      -> 3
      [] k = "litigation" -> 5

TEMP_NAME == "temp_document_collection"

Threads == {"t1", "t2"}

NoCollection == [live |-> FALSE, uid |-> 0, units |-> <<>>]
NoResult == [top_keywords_overall |-> <<>>, keyword_details |-> <<>>, set |-> FALSE]
NoArgs == [num_results |-> 0, num_top_sentences |-> 0]

\* lines 47-52: the keyword collection after collection.add, one unit a keyword
KeywordCollection ==
    [live |-> TRUE,
     units |-> [i \in 1..NumKeywords |->
                   [id |-> i - 1, document |-> VERIFICATION_KEYWORDS[i]]]]

\* no GenerationResult yet
NoGenerationResult == [set |-> FALSE]

\* no file at TRAINING_DATA_PATH
NoFile == [exists |-> FALSE, content |-> <<>>]

\* no request of the classifier API has been answered
NoResponse == [op |-> "none", status |-> 0]


(***************************************************************************)
(* Sorting                                                                 *)
(***************************************************************************)
\* x goes behind every element whose distance is not larger: stable
StableInsert(x, s) ==
    LET before == SelectSeq(s, LAMBDA y : y.distance <= x.distance)
        after  == SelectSeq(s, LAMBDA y : y.distance > x.distance)
    IN  before \o <<x>> \o after

\* x goes in front of every element whose distance is not smaller
UnstableInsert(x, s) ==
    LET before == SelectSeq(s, LAMBDA y : y.distance < x.distance)
        after  == SelectSeq(s, LAMBDA y : y.distance >= x.distance)
    IN  before \o <<x>> \o after

RECURSIVE SortByDistance(_)
SortByDistance(s) ==
    IF s = <<>> THEN <<>>
    ELSE StableInsert(s[Len(s)], SortByDistance(SubSeq(s, 1, Len(s) - 1)))

RECURSIVE SortByDistanceUnstable(_)
SortByDistanceUnstable(s) ==
    IF s = <<>> THEN <<>>
    ELSE UnstableInsert(s[Len(s)], SortByDistanceUnstable(SubSeq(s, 1, Len(s) - 1)))

Take(s, n) == SubSeq(s, 1, IF n < Len(s) THEN n ELSE Len(s))

(***************************************************************************)
(* process_document: ids and documents of the sentences                    *)
(***************************************************************************)
process_document(doc) ==
    [i \in 1..Len(doc) |-> [id |-> i - 1, document |-> doc[i]]]

(***************************************************************************)
(* The vector index, as the code uses it                                   *)
(***************************************************************************)
\* collection.add: units whose id the collection already holds are ignored
CollectionAdd(units, new) ==
    units \o SelectSeq(new, LAMBDA u : \A j \in 1..Len(units) : units[j].id # u.id)

\* a query that returns every unit of the collection, whatever n is
CollectionQueryAll(units, q, n) ==
    SortByDistance([i \in 1..Len(units) |->
            [id |-> units[i].id, document |-> units[i].document,
             distance |-> CosineDistance(q, units[i].document)]])

\* collection.query for one query direction: the n nearest units, nearest first
CollectionQuery(units, q, n) ==
    Take(SortByDistance([i \in 1..Len(units) |->
            [id |-> units[i].id, document |-> units[i].document,
             distance |-> CosineDistance(q, units[i].document)]]), n)

(***************************************************************************)
(* find_semantic_matches, lines 130-170: aggregation of the query results  *)
(***************************************************************************)
\* as KeywordEntry, but an entry is stored only when several sentences matched
KeywordEntrySeveral(keyword, matched) ==
    IF Len(matched) > 1
    THEN <<[keyword |-> keyword,
            top_match_sentence |-> matched[1].document,
            top_match_distance |-> matched[1].distance,
            all_matched_sentences |-> [j \in 1..Len(matched) |-> matched[j].document],
            all_distances |-> [j \in 1..Len(matched) |-> matched[j].distance]]>>
    ELSE <<>>

\* the entry keyword_matches gets for one keyword, or none when nothing matched
KeywordEntry(keyword, matched) ==
    IF matched # <<>>
    THEN <<[keyword |-> keyword,
            top_match_sentence |-> matched[1].document,
            top_match_distance |-> matched[1].distance,
            all_matched_sentences |-> [j \in 1..Len(matched) |-> matched[j].document],
            all_distances |-> [j \in 1..Len(matched) |-> matched[j].distance]]>>
    ELSE <<>>

\* the loop over VERIFICATION_KEYWORDS; the dict keeps insertion order
RECURSIVE keyword_matches(_, _, _)
keyword_matches(i, units, num_top_sentences) ==
    IF i > Len(VERIFICATION_KEYWORDS) THEN <<>>
    ELSE KeywordEntry(VERIFICATION_KEYWORDS[i],
                      CollectionQuery(units, KeywordDir(VERIFICATION_KEYWORDS[i]),
                                      num_top_sentences))
         \o keyword_matches(i + 1, units, num_top_sentences)

overall_best_matches(details) ==
    [i \in 1..Len(details) |->
        [keyword |-> details[i].keyword,
         distance |-> details[i].top_match_distance,
         matched_sentence |-> details[i].top_match_sentence]]

\* as overall_sort, with a sort that does not keep the order of equal keys
overall_sort_unstable(s) == SortByDistanceUnstable(s)

\* list.sort(key=distance) is stable
overall_sort(s) == SortByDistance(s)

top_keywords(s, num_results) == Take(s, num_results)

SemanticMatches(units, a) ==
    LET details == keyword_matches(1, units, a.num_top_sentences)
    IN  [top_keywords_overall |->
            top_keywords(overall_sort(overall_best_matches(details)), a.num_results),
         keyword_details |-> details,
         set |-> TRUE]

(***************************************************************************)
(* State                                                                   *)
(***************************************************************************)
InitVerify ==
    /\ temp_collection = NoCollection
    /\ pc = [t \in Threads |-> "idle"]
    /\ document_data = [t \in Threads |-> <<>>]
    /\ args = [t \in Threads |-> NoArgs]
    /\ doc_collection = [t \in Threads |-> 0]
    /\ results = [t \in Threads |-> NoResult]
    /\ requests = 0
    /\ responses = {}
    /\ corpus = <<>>
    /\ rag_pc = "idle"
    /\ query = 0
    /\ n_results = 0
    /\ snippets = <<>>
    /\ prompt_calls = <<>>
    /\ raised_by = [t \in Threads |-> "none"]
    /\ document_text = [t \in Threads |-> <<>>]
    /\ k2_collection = 1
    /\ keyword_collection = KeywordCollection
    /\ init_pc = "done"
    /\ serving = TRUE
    /\ prompt = <<>>
    /\ generate_failed = FALSE
    /\ result = NoGenerationResult
    /\ generate_calls = 0
    /\ server = "keywords"
    /\ training_data = <<>>
    /\ training_data_file = NoFile
    /\ model_file = FALSE
    /\ temp_files = {}
    /\ built = FALSE
    /\ response = NoResponse

\* the name under which the call of thread t keeps its temporary collection
CollectionName(t) == TEMP_NAME

InFlight(t) == pc[t] \in {"created", "added", "queried", "failing"}

\* A new collection gets an identity no handle in use denotes (the client draws
\* a fresh UUID); the smallest such number stands for it.
FreshUid ==
    CHOOSE u \in 1..(Cardinality(Threads) + 1) :
        /\ \A t \in Threads : doc_collection[t] # u
        /\ \A v \in 1..(u - 1) : \E t \in Threads : doc_collection[t] = v

\* the handle of thread t still denotes the live collection of that name
HandleValid(t) ==
    temp_collection.live /\ temp_collection.uid = doc_collection[t]

(***************************************************************************)
(* find_semantic_matches, one action per access to the shared client       *)
(***************************************************************************)
\* lines 114-117: get_or_create_collection(name="temp_document_collection")
GetOrCreate(t, doc, num_results, num_top_sentences) ==
    /\ pc[t] = "idle"
    /\ document_data' = [document_data EXCEPT ![t] = process_document(doc)]
    /\ args' = [args EXCEPT ![t] = [num_results |-> num_results,
                                    num_top_sentences |-> num_top_sentences]]
    /\ IF temp_collection.live
       THEN /\ doc_collection' = [doc_collection EXCEPT ![t] = temp_collection.uid]
            /\ UNCHANGED temp_collection
       ELSE /\ temp_collection' = [live |-> TRUE, uid |-> FreshUid, units |-> <<>>]
            /\ doc_collection' = [doc_collection EXCEPT ![t] = FreshUid]
    /\ pc' = [pc EXCEPT ![t] = "created"]
    /\ UNCHANGED <<results, raised_by>>

\* line 118: doc_collection.add(**document_data), before the try block
AddOk(t) ==
    /\ pc[t] = "created"
    /\ HandleValid(t)
    /\ temp_collection' = [temp_collection EXCEPT
                              !.units = CollectionAdd(@, document_data[t])]
    /\ pc' = [pc EXCEPT ![t] = "added"]
    /\ UNCHANGED <<document_data, args, doc_collection, results,
                   requests, responses>>
    /\ UNCHANGED <<document_text, startupVars, ragVars, classifierVars>>
    /\ UNCHANGED raised_by

\* line 118 raises: the collection was deleted by another call in the meantime
AddStale(t) ==
    /\ pc[t] = "created"
    /\ ~HandleValid(t)
    /\ pc' = [pc EXCEPT ![t] = "raised"]
    /\ UNCHANGED <<temp_collection, document_data, args, doc_collection,
                   results, requests, responses>>
    /\ UNCHANGED <<document_text, startupVars, ragVars, classifierVars>>
    /\ raised_by' = [raised_by EXCEPT ![t] = "add"]

\* line 118 raises: the index rejects the batch (size limit, storage error)
AddRejected(t) ==
    /\ pc[t] = "created"
    /\ HandleValid(t)
    /\ pc' = [pc EXCEPT ![t] = "raised"]
    /\ UNCHANGED <<temp_collection, document_data, args, doc_collection,
                   results, requests, responses>>
    /\ UNCHANGED <<document_text, startupVars, ragVars, classifierVars>>
    /\ raised_by' = [raised_by EXCEPT ![t] = "add"]

\* lines 122-170: query, aggregation, return value computed
QueryOk(t) ==
    /\ pc[t] = "added"
    /\ HandleValid(t)
    /\ results' = [results EXCEPT ![t] = SemanticMatches(temp_collection.units, args[t])]
    /\ pc' = [pc EXCEPT ![t] = "queried"]
    /\ UNCHANGED <<temp_collection, document_data, args, doc_collection,
                   requests, responses>>
    /\ UNCHANGED <<document_text, startupVars, ragVars, classifierVars>>
    /\ UNCHANGED raised_by

\* line 122 raises: the collection was deleted by another call in the meantime
QueryStale(t) ==
    /\ pc[t] = "added"
    /\ ~HandleValid(t)
    /\ pc' = [pc EXCEPT ![t] = "failing"]
    /\ UNCHANGED <<temp_collection, document_data, args, doc_collection,
                   results, requests, responses>>
    /\ UNCHANGED <<document_text, startupVars, ragVars, classifierVars>>
    /\ UNCHANGED raised_by

\* line 122 raises: embedding the query texts fails
QueryFails(t) ==
    /\ pc[t] = "added"
    /\ HandleValid(t)
    /\ pc' = [pc EXCEPT ![t] = "failing"]
    /\ UNCHANGED <<temp_collection, document_data, args, doc_collection,
                   results, requests, responses>>
    /\ UNCHANGED <<document_text, startupVars, ragVars, classifierVars>>
    /\ UNCHANGED raised_by

\* lines 172-174: finally: delete_collection(name="temp_document_collection")
DeleteOk(t) ==
    /\ pc[t] \in {"queried", "failing"}
    /\ temp_collection.live
    /\ temp_collection' = NoCollection
    /\ pc' = [pc EXCEPT ![t] = IF pc[t] = "queried" THEN "returned" ELSE "raised"]
    /\ UNCHANGED <<document_data, args, doc_collection, results,
                   requests, responses>>
    /\ UNCHANGED <<document_text, startupVars, ragVars, classifierVars>>
    /\ raised_by' = [raised_by EXCEPT ![t] =
                       IF pc[t] = "queried" THEN "none" ELSE "query"]

\* line 174 raises: no collection of that name exists any more
DeleteRaises(t) ==
    /\ pc[t] \in {"queried", "failing"}
    /\ ~temp_collection.live
    /\ pc' = [pc EXCEPT ![t] = "raised"]
    /\ UNCHANGED <<temp_collection, document_data, args, doc_collection,
                   results, requests, responses>>
    /\ UNCHANGED <<document_text, startupVars, ragVars, classifierVars>>
    /\ raised_by' = [raised_by EXCEPT ![t] = "delete"]

Reset(t) ==
    /\ pc' = [pc EXCEPT ![t] = "idle"]
    /\ document_data' = [document_data EXCEPT ![t] = <<>>]
    /\ args' = [args EXCEPT ![t] = NoArgs]
    /\ doc_collection' = [doc_collection EXCEPT ![t] = 0]
    /\ results' = [results EXCEPT ![t] = NoResult]
    /\ raised_by' = [raised_by EXCEPT ![t] = "none"]
    /\ document_text' = [document_text EXCEPT ![t] = <<>>]

(***************************************************************************)
(* api_verify: the only caller in the application                          *)
(***************************************************************************)
VerifyDirs == {0, 2}

\* lines 206-216: a request with a non-empty document
ApiVerify(t, doc) ==
    /\ serving
    /\ requests < MaxRequests
    /\ GetOrCreate(t, doc, 3, 1)
    /\ requests' = requests + 1
    /\ UNCHANGED responses
    /\ UNCHANGED <<document_text, startupVars, ragVars, classifierVars>>

Documents(t) == [i \in 1..Len(document_data[t]) |-> document_data[t][i].document]

\* lines 219-227: the response, or the 500 of an uncaught exception
ApiRespond(t) ==
    /\ pc[t] \in {"returned", "raised"}
    /\ responses' = responses \cup
          {[document_sentences |-> Documents(t),
            status |-> IF pc[t] = "returned" THEN "success" ELSE "error",
            top_keywords |-> IF pc[t] = "returned"
                             THEN results[t].top_keywords_overall ELSE <<>>,
            keyword_details |-> IF pc[t] = "returned"
                                THEN results[t].keyword_details ELSE <<>>]}
    /\ Reset(t)
    /\ UNCHANGED <<temp_collection, requests>>
    /\ UNCHANGED <<startupVars, ragVars, classifierVars>>

NextVerify ==
    \E t \in Threads :
        \/ \E doc \in DocsOver(VerifyDirs, MaxRaceSentences) : ApiVerify(t, doc)
        \/ AddOk(t)
        \/ AddStale(t)
        \/ AddRejected(t)
        \/ QueryOk(t)
        \/ QueryStale(t)
        \/ QueryFails(t)
        \/ DeleteOk(t)
        \/ DeleteRaises(t)
        \/ ApiRespond(t)

SpecVerify == InitVerify /\ [][NextVerify]_vars

(***************************************************************************)
(* find_semantic_matches called directly, with any arguments               *)
(***************************************************************************)
NumResultsInputs == {0, 1, 3, NumKeywords + 1}
NumTopSentencesInputs == {1, 3}

CallMatches(t, doc, num_results, num_top_sentences) ==
    /\ GetOrCreate(t, doc, num_results, num_top_sentences)
    /\ UNCHANGED <<requests, responses>>
    /\ UNCHANGED <<document_text, startupVars, ragVars, classifierVars>>

\* the caller takes the returned value, or the exception
ReturnMatches(t) ==
    /\ pc[t] \in {"returned", "raised"}
    /\ Reset(t)
    /\ UNCHANGED <<temp_collection, requests, responses>>
    /\ UNCHANGED <<startupVars, ragVars, classifierVars>>

NextMatch ==
    \/ \E doc \in DocsOver(Dirs, MaxSentences), nr \in NumResultsInputs,
          nt \in NumTopSentencesInputs : CallMatches("t1", doc, nr, nt)
    \/ AddOk("t1")
    \/ AddRejected("t1")
    \/ QueryOk("t1")
    \/ QueryFails("t1")
    \/ DeleteOk("t1")
    \/ ReturnMatches("t1")

SpecMatch == InitVerify /\ [][NextMatch]_vars

(***************************************************************************)
(* Properties of find_semantic_matches under concurrent requests           *)
(***************************************************************************)
Exited(t) == pc[t] \in {"idle", "returned", "raised"}

\* C1: no two in-flight verify calls hold an ephemeral collection with the
\* same name.
C1_UniqueEphemeralName ==
    \A t1, t2 \in Threads :
        (t1 # t2 /\ InFlight(t1) /\ InFlight(t2))
            => CollectionName(t1) # CollectionName(t2)

\* C2: a call that has created its collection and not yet queried it still has
\* it (no other call deleted it), and when the call is about to query, the
\* collection holds exactly the sentences that call added.
C2_ExclusiveOwnership ==
    \A t \in Threads :
        /\ pc[t] \in {"created", "added"} => HandleValid(t)
        /\ pc[t] = "added" => temp_collection.units = document_data[t]

\* C3: whenever no verify call is in flight, no ephemeral collection is live
\* (every exit path of a call has destroyed the collection it created).
C3_DestroyedOnEveryExit ==
    (\A t \in Threads : Exited(t)) => ~temp_collection.live

\* C4: two verify requests with the same document that both succeed return the
\* same ranking, whatever else ran at the same time.
C4_SameDocumentSameRanking ==
    \A r1, r2 \in responses :
        (r1.status = "success" /\ r2.status = "success"
            /\ r1.document_sentences = r2.document_sentences)
        => (r1.top_keywords = r2.top_keywords
            /\ r1.keyword_details = r2.keyword_details)

(***************************************************************************)
(* Properties of the value find_semantic_matches returns                   *)
(***************************************************************************)
Min(a, b) == IF a < b THEN a ELSE b

KeywordIndex(k) == CHOOSE i \in 1..NumKeywords : VERIFICATION_KEYWORDS[i] = k

\* (distance, position in VERIFICATION_KEYWORDS) compared lexicographically
RankedBefore(d1, k1, d2, k2) ==
    d1 < d2 \/ (d1 = d2 /\ KeywordIndex(k1) < KeywordIndex(k2))

\* C5: a call that returns has one detail entry per keyword, in keyword order,
\* and an overall-top list of min(num_results, M) entries.
C5_ResultSizes ==
    \A t \in Threads :
        pc[t] = "returned" =>
            /\ Len(results[t].keyword_details) = NumKeywords
            /\ \A i \in 1..Len(results[t].keyword_details) :
                  results[t].keyword_details[i].keyword = VERIFICATION_KEYWORDS[i]
            /\ Len(results[t].top_keywords_overall)
                  = Min(args[t].num_results, NumKeywords)

\* a call returned for a document of several sentences, asked for more overall
\* results than there are keywords
C5_Witness ==
    \E t \in Threads :
        /\ pc[t] = "returned"
        /\ Len(document_data[t]) > 1
        /\ args[t].num_results > NumKeywords

\* C6: the overall-top list holds the keywords with the smallest best-match
\* distances, ascending, equal distances in the order of VERIFICATION_KEYWORDS,
\* cut to num_results.
C6_OverallTopOrder ==
    \A t \in Threads :
        pc[t] = "returned" =>
            LET top == results[t].top_keywords_overall
                det == results[t].keyword_details
                InTop(k) == \E i \in 1..Len(top) : top[i].keyword = k
            IN  /\ Len(top) = Min(args[t].num_results, Len(det))
                /\ \A i \in 1..Len(top) : \E j \in 1..Len(det) :
                      /\ det[j].keyword = top[i].keyword
                      /\ det[j].top_match_distance = top[i].distance
                      /\ det[j].top_match_sentence = top[i].matched_sentence
                /\ \A i, j \in 1..Len(top) :
                      i < j => RankedBefore(top[i].distance, top[i].keyword,
                                            top[j].distance, top[j].keyword)
                /\ \A j \in 1..Len(det) :
                      ~InTop(det[j].keyword) =>
                          \A i \in 1..Len(top) :
                              RankedBefore(top[i].distance, top[i].keyword,
                                           det[j].top_match_distance, det[j].keyword)

\* a call returned a list that was cut, in which two keywords tie and the
\* first keyword of the configuration is not the first of the list
C6_Witness ==
    \E t \in Threads :
        /\ pc[t] = "returned"
        /\ Len(results[t].top_keywords_overall) < Len(results[t].keyword_details)
        /\ \E i \in 1..Len(results[t].top_keywords_overall) - 1 :
              results[t].top_keywords_overall[i].distance
                  = results[t].top_keywords_overall[i + 1].distance
        /\ results[t].top_keywords_overall[1].keyword # VERIFICATION_KEYWORDS[1]

(***************************************************************************)
(* src/futureapp: the persistent corpus and retrieve_similar_snippets      *)
(***************************************************************************)
SIMILARITY_THRESHOLD == 1   \* 0.5, in halves

CorpusDirs == 0..3
QueryDirs == {0, 1}

KeywordPool == <<"html", "tailwind">>

\* json.dumps of a list of strings, as its tokens
RECURSIVE JsonItems(_)
JsonItems(list) ==
    IF list = <<>> THEN <<>>
    ELSE IF Len(list) = 1 THEN list
    ELSE <<list[1], ",">> \o JsonItems(Tail(list))

JsonDumps(list) == <<"[">> \o JsonItems(list) \o <<"]">>

\* json.loads of such a token sequence
JsonLoads(tokens) == SelectSeq(tokens, LAMBDA x : x \notin {"[", ",", "]"})

\* ', '.join(list)
RECURSIVE Join(_)
Join(list) ==
    IF list = <<>> THEN <<>>
    ELSE IF Len(list) = 1 THEN list
    ELSE <<list[1], ", ">> \o Join(Tail(list))

\* store_snippets: the unit stored for the i-th snippet, whose search text
\* embeds in direction dir
StoredUnit(i, dir) ==
    [id |-> i,
     embedding |-> dir,
     document |-> [code_of |-> i],
     metadata |-> [category |-> [category_of |-> i],
                   keywords |-> JsonDumps(SubSeq(KeywordPool, 1, i % 3)),
                   description |-> [description_of |-> i],
                   language |-> [language_of |-> i]]]

\* the corpora of at most n units whose search texts embed in S
CorporaOver(S, n) ==
    {[i \in 1..Len(dirs) |-> StoredUnit(i, dirs[i])] :
        dirs \in UNION {[1..len -> S] : len \in 0..n}}

Corpora(n) == CorporaOver(CorpusDirs, n)

\* collection.query(query_texts=[query], n_results): the nearest units first
CorpusQuery(units, q, n) ==
    Take(SortByDistance([i \in 1..Len(units) |->
            [id |-> units[i].id, document |-> units[i].document,
             metadata |-> units[i].metadata,
             distance |-> CosineDistance(q, units[i].embedding)]]), n)

\* line 122
Similarity(distance) == 2 - distance

\* as LowSimilarity, comparing the distance with the threshold
LowSimilarityOfDistance(distance) == distance < SIMILARITY_THRESHOLD

\* as LowSimilarity, with the filter switched off
LowSimilarityNever(distance) == FALSE

\* line 125: the test that skips a result
LowSimilarity(distance) == Similarity(distance) < SIMILARITY_THRESHOLD

RetrievedSnippet(r) ==
    [id |-> r.id,
     code |-> r.document,
     description |-> r.metadata.description,
     keywords |-> JsonLoads(r.metadata.keywords),
     category |-> r.metadata.category,
     language |-> r.metadata.language,
     similarity |-> Similarity(r.distance)]

\* as retrieve_loop, putting each snippet in front of the list
RECURSIVE retrieve_loop_prepend(_, _)
retrieve_loop_prepend(res, i) ==
    IF i > Len(res) THEN <<>>
    ELSE retrieve_loop_prepend(res, i + 1)
         \o (IF LowSimilarity(res[i].distance) THEN <<>>
             ELSE <<RetrievedSnippet(res[i])>>)

\* lines 118-139: the loop over the results of the query
RECURSIVE retrieve_loop(_, _)
retrieve_loop(res, i) ==
    IF i > Len(res) THEN <<>>
    ELSE (IF LowSimilarity(res[i].distance) THEN <<>>
          ELSE <<RetrievedSnippet(res[i])>>)
         \o retrieve_loop(res, i + 1)

retrieve_similar_snippets(collection, q, n) ==
    retrieve_loop(CorpusQuery(collection, q, n), 1)

(***************************************************************************)
(* build_rag_prompt                                                        *)
(***************************************************************************)
ExampleBlock(i, snippet) ==
    [kind |-> "example",
     number |-> i,
     description |-> snippet.description,
     category |-> snippet.category,
     keywords |-> Join(snippet.keywords),
     language |-> snippet.language,
     fence |-> snippet.language,
     code |-> snippet.code]

\* as build_rag_prompt, the example numbers running on from the calls before
build_rag_prompt_counting(q, list) ==
    <<[kind |-> "preamble"]>>
    \o [i \in 1..Len(list) |-> ExampleBlock(Len(prompt_calls) + i, list[i])]
    \o <<[kind |-> "request", query |-> q], [kind |-> "instructions"]>>

build_rag_prompt(q, list) ==
    <<[kind |-> "preamble"]>>
    \o [i \in 1..Len(list) |-> ExampleBlock(i, list[i])]
    \o <<[kind |-> "request", query |-> q], [kind |-> "instructions"]>>

(***************************************************************************)
(* The two functions, applied to any corpus, query and n_results           *)
(***************************************************************************)
InitRag ==
    /\ temp_collection = NoCollection
    /\ pc = [t \in Threads |-> "idle"]
    /\ document_data = [t \in Threads |-> <<>>]
    /\ args = [t \in Threads |-> NoArgs]
    /\ doc_collection = [t \in Threads |-> 0]
    /\ results = [t \in Threads |-> NoResult]
    /\ requests = 0
    /\ responses = {}
    /\ corpus \in Corpora(MaxCorpus)
    /\ rag_pc = "idle"
    /\ query = 0
    /\ n_results = 0
    /\ snippets = <<>>
    /\ prompt_calls = <<>>
    /\ raised_by = [t \in Threads |-> "none"]
    /\ document_text = [t \in Threads |-> <<>>]
    /\ k2_collection = 1
    /\ keyword_collection = KeywordCollection
    /\ init_pc = "done"
    /\ serving = TRUE
    /\ prompt = <<>>
    /\ generate_failed = FALSE
    /\ result = NoGenerationResult
    /\ generate_calls = 0
    /\ server = "keywords"
    /\ training_data = <<>>
    /\ training_data_file = NoFile
    /\ model_file = FALSE
    /\ temp_files = {}
    /\ built = FALSE
    /\ response = NoResponse

RetrieveSimilarSnippets(q, n) ==
    /\ rag_pc = "idle"
    /\ query' = q
    /\ n_results' = n
    /\ snippets' = retrieve_similar_snippets(corpus, q, n)
    /\ rag_pc' = "retrieved"
    /\ UNCHANGED <<corpus, prompt_calls>>
    /\ UNCHANGED queryVars
    /\ UNCHANGED <<verifyVars, classifierVars>>

\* the caller builds the prompt from the query and the list it holds
BuildRagPrompt ==
    /\ rag_pc = "retrieved"
    /\ prompt_calls' =
          (IF Len(prompt_calls) < 2 THEN prompt_calls ELSE Tail(prompt_calls))
          \o <<[query |-> query, snippets |-> snippets,
                prompt |-> build_rag_prompt(query, snippets)]>>
    /\ rag_pc' = "idle"
    /\ UNCHANGED <<corpus, query, n_results, snippets>>
    /\ UNCHANGED queryVars
    /\ UNCHANGED <<verifyVars, classifierVars>>

NextRag ==
    \/ \E q \in QueryDirs, n \in 1..MaxK : RetrieveSimilarSnippets(q, n)
    \/ BuildRagPrompt

SpecRag == InitRag /\ [][NextRag]_vars

(***************************************************************************)
(* Properties of retrieve_similar_snippets and build_rag_prompt            *)
(***************************************************************************)
\* the similarity of the query of the last retrieval to the i-th corpus unit
CorpusSimilarity(i) == 2 - CosineDistance(query, corpus[i].embedding)

\* C7: no returned snippet has a similarity (1 - distance to the query) below
\* the threshold.
C7_NoMatchBelowThreshold ==
    rag_pc = "retrieved" =>
        \A i \in 1..Len(snippets) :
            /\ snippets[i].similarity >= SIMILARITY_THRESHOLD
            /\ snippets[i].similarity = CorpusSimilarity(snippets[i].id)

\* a retrieval returned something and left out a unit among the nearest
C7_Witness ==
    /\ rag_pc = "retrieved"
    /\ snippets # <<>>
    /\ Len(snippets) < Min(n_results, Len(corpus))

C9_RankedSubsequence ==
    rag_pc = "retrieved" =>
        LET near == CorpusQuery(corpus, query, n_results)
            kept == SelectSeq(near,
                        LAMBDA r : 2 - r.distance >= SIMILARITY_THRESHOLD)
        IN  /\ Len(snippets) = Len(kept)
            /\ \A i \in 1..Len(snippets) :
                  /\ snippets[i].id = kept[i].id
                  /\ snippets[i].code = corpus[kept[i].id].document
            /\ \A i, j \in 1..Len(snippets) :
                  i < j => snippets[i].similarity >= snippets[j].similarity
            /\ Len(snippets) <= Min(n_results, Len(corpus))
            /\ Len(near) = Min(n_results, Len(corpus))
            /\ \A i \in 1..Len(corpus) :
                  (\A j \in 1..Len(near) : near[j].id # i) =>
                      \A j \in 1..Len(near) :
                          near[j].distance <= CosineDistance(query, corpus[i].embedding)

\* a retrieval returned two snippets of different similarity, from a corpus
\* larger than n_results
C9_Witness ==
    /\ rag_pc = "retrieved"
    /\ n_results < Len(corpus)
    /\ Len(snippets) > 1
    /\ snippets[1].similarity # snippets[2].similarity
    /\ snippets[1].id > snippets[2].id

\* C10: every prompt holds one example block per snippet, numbered 1..n in the
\* order of the snippets and carrying their fields, between the preamble and
\* the request with the query; two calls with the same query and snippets give
\* the same prompt.
C10_PromptDeterministic ==
    /\ \A c \in 1..Len(prompt_calls) :
          LET call == prompt_calls[c]
              blocks == SelectSeq(call.prompt, LAMBDA b : b.kind = "example")
              n == Len(call.snippets)
          IN  /\ Len(call.prompt) = n + 3
              /\ call.prompt[1].kind = "preamble"
              /\ call.prompt[n + 2] = [kind |-> "request", query |-> call.query]
              /\ call.prompt[n + 3].kind = "instructions"
              /\ Len(blocks) = n
              /\ \A i \in 1..n :
                    /\ call.prompt[i + 1] = blocks[i]
                    /\ blocks[i].number = i
                    /\ blocks[i].description = call.snippets[i].description
                    /\ blocks[i].category = call.snippets[i].category
                    /\ blocks[i].language = call.snippets[i].language
                    /\ blocks[i].code = call.snippets[i].code
    /\ \A c1, c2 \in 1..Len(prompt_calls) :
          (prompt_calls[c1].query = prompt_calls[c2].query
              /\ prompt_calls[c1].snippets = prompt_calls[c2].snippets)
          => prompt_calls[c1].prompt = prompt_calls[c2].prompt

\* the same query and the same two snippets were given to two calls
C10_Witness ==
    /\ Len(prompt_calls) = 2
    /\ prompt_calls[1].query = prompt_calls[2].query
    /\ prompt_calls[1].snippets = prompt_calls[2].snippets
    /\ Len(prompt_calls[1].snippets) > 1

(***************************************************************************)
(* Destroying and creating the temporary collection                        *)
(***************************************************************************)
\* C11: destroying a collection that is already destroyed is a no-op and
\* not an error: no call of find_semantic_matches is left by an exception
\* of the delete_collection in its finally block.
C11_DestroyIdempotent ==
    \A t \in Threads : raised_by[t] # "delete"

\* C12: a create never hands out a collection that another in-flight request
\* created: two calls that are in flight never hold the same handle.
C12_CreateNeverShares ==
    \A t1, t2 \in Threads :
        (t1 # t2 /\ InFlight(t1) /\ InFlight(t2))
            => doc_collection[t1] # doc_collection[t2]

\* the ids of a sequence of units
UnitIds(units) == {units[i].id : i \in 1..Len(units)}

\* C13: an add that repeats an id already present in the collection fails
\* (it never completes normally), and the ids one call adds are pairwise
\* distinct.
C13_RepeatedIdRejected ==
    [][\A t \in Threads :
          (pc[t] = "created" /\ pc'[t] = "added")
              => /\ UnitIds(document_data[t]) \cap UnitIds(temp_collection.units) = {}
                 /\ Cardinality(UnitIds(document_data[t])) = Len(document_data[t])]_vars

(***************************************************************************)
(* initialize_embedding_model: the keyword collection "document_embeddings" *)
(***************************************************************************)
\* the module is being imported: nothing is initialized, no request is served
InitStartup ==
    /\ temp_collection = NoCollection
    /\ pc = [t \in Threads |-> "idle"]
    /\ document_data = [t \in Threads |-> <<>>]
    /\ args = [t \in Threads |-> NoArgs]
    /\ doc_collection = [t \in Threads |-> 0]
    /\ results = [t \in Threads |-> NoResult]
    /\ requests = 0
    /\ responses = {}
    /\ raised_by = [t \in Threads |-> "none"]
    /\ document_text = [t \in Threads |-> <<>>]
    /\ k2_collection = 0
    /\ keyword_collection = [live |-> FALSE, units |-> <<>>]
    /\ init_pc = "start"
    /\ serving = FALSE
    /\ corpus = <<>>
    /\ rag_pc = "idle"
    /\ query = 0
    /\ n_results = 0
    /\ snippets = <<>>
    /\ prompt_calls = <<>>
    /\ prompt = <<>>
    /\ generate_failed = FALSE
    /\ result = NoGenerationResult
    /\ generate_calls = 0
    /\ server = "keywords"
    /\ training_data = <<>>
    /\ training_data_file = NoFile
    /\ model_file = FALSE
    /\ temp_files = {}
    /\ built = FALSE
    /\ response = NoResponse

\* lines 31-38: a call of initialize_embedding_model, at import (line 56) or
\* again while the application serves; an existing collection is deleted
InitializeReset ==
    /\ \/ init_pc = "start"
       \/ init_pc = "done" /\ serving
    /\ keyword_collection' = IF k2_collection # 0
                             THEN [live |-> FALSE, units |-> <<>>]
                             ELSE keyword_collection
    /\ init_pc' = "reset"
    /\ UNCHANGED <<k2_collection, serving>>
    /\ UNCHANGED <<temp_collection, pc, document_data, args, doc_collection,
                   results, requests, responses, raised_by, document_text>>
    /\ UNCHANGED <<ragVars, classifierVars>>

\* lines 40-43: collection = chroma_client.get_or_create_collection(...)
InitializeCreate ==
    /\ init_pc = "reset"
    /\ keyword_collection' = IF keyword_collection.live
                             THEN keyword_collection
                             ELSE [live |-> TRUE, units |-> <<>>]
    /\ k2_collection' = 1
    /\ init_pc' = "created"
    /\ UNCHANGED serving
    /\ UNCHANGED <<temp_collection, pc, document_data, args, doc_collection,
                   results, requests, responses, raised_by, document_text>>
    /\ UNCHANGED <<ragVars, classifierVars>>

\* lines 47-52: collection.add of all keywords in one batch
InitializeAdd ==
    /\ init_pc = "created"
    /\ keyword_collection' =
          [keyword_collection EXCEPT
              !.units = CollectionAdd(@, KeywordCollection.units)]
    /\ init_pc' = "done"
    /\ UNCHANGED <<k2_collection, serving>>
    /\ UNCHANGED <<temp_collection, pc, document_data, args, doc_collection,
                   results, requests, responses, raised_by, document_text>>
    /\ UNCHANGED <<ragVars, classifierVars>>

\* lines 231-232: app.run, after the import has completed
AppRun ==
    /\ init_pc = "done"
    /\ ~serving
    /\ serving' = TRUE
    /\ UNCHANGED <<k2_collection, keyword_collection, init_pc>>
    /\ UNCHANGED <<temp_collection, pc, document_data, args, doc_collection,
                   results, requests, responses, raised_by, document_text>>
    /\ UNCHANGED <<ragVars, classifierVars>>

NextStartup ==
    \/ InitializeReset
    \/ InitializeCreate
    \/ InitializeAdd
    \/ AppRun
    \/ \E doc \in DocsOver(VerifyDirs, MaxRaceSentences) : ApiVerify("t1", doc)
    \/ AddOk("t1")
    \/ QueryOk("t1")
    \/ DeleteOk("t1")
    \/ ApiRespond("t1")

SpecStartup == InitStartup /\ [][NextStartup]_vars

TOP_K_RESULTS == 3

build_simple_prompt(q) == <<[kind |-> "simple", query |-> q]>>

\* a retrieval that stores the query it was asked as a unit of the corpus
ProcessQueryRetrieveStoring(q) ==
    /\ rag_pc = "idle"
    /\ query' = q
    /\ n_results' = TOP_K_RESULTS
    /\ snippets' = retrieve_similar_snippets(corpus, q, TOP_K_RESULTS)
    /\ corpus' = Append(corpus, StoredUnit(Len(corpus) + 1, q))
    /\ rag_pc' = "pq_retrieved"
    /\ prompt' = <<>>
    /\ generate_failed' = FALSE
    /\ result' = NoGenerationResult
    /\ generate_calls' = 0
    /\ UNCHANGED prompt_calls
    /\ UNCHANGED <<verifyVars, classifierVars>>

\* line 262: snippets = retrieve_similar_snippets(collection, query)
ProcessQueryRetrieve(q) ==
    /\ rag_pc = "idle"
    /\ query' = q
    /\ n_results' = TOP_K_RESULTS
    /\ snippets' = retrieve_similar_snippets(corpus, q, TOP_K_RESULTS)
    /\ rag_pc' = "pq_retrieved"
    /\ prompt' = <<>>
    /\ generate_failed' = FALSE
    /\ result' = NoGenerationResult
    /\ generate_calls' = 0
    /\ UNCHANGED <<corpus, prompt_calls>>
    /\ UNCHANGED <<verifyVars, classifierVars>>

\* as ProcessQueryPrompt, but the prompt with examples is built in any case
ProcessQueryPromptAlwaysRag ==
    /\ rag_pc = "pq_retrieved"
    /\ prompt' = build_rag_prompt(query, snippets)
    /\ rag_pc' = "pq_prompted"
    /\ UNCHANGED <<corpus, query, n_results, snippets, prompt_calls,
                   generate_failed, result, generate_calls>>
    /\ UNCHANGED <<verifyVars, classifierVars>>

\* lines 271-275: the prompt, with the examples if there are any
ProcessQueryPrompt ==
    /\ rag_pc = "pq_retrieved"
    /\ prompt' = IF snippets # <<>> THEN build_rag_prompt(query, snippets)
                                    ELSE build_simple_prompt(query)
    /\ rag_pc' = "pq_prompted"
    /\ UNCHANGED <<corpus, query, n_results, snippets, prompt_calls,
                   generate_failed, result, generate_calls>>
    /\ UNCHANGED <<verifyVars, classifierVars>>

\* the GenerationResult of lines 280-285
GenerationResult(code) ==
    [set |-> TRUE, query |-> query, retrieved_snippets |-> snippets,
     generated_code |-> code, model_used |-> "GENERATION_MODEL"]

\* lines 225-240, 278-285: ollama.chat answers, its content is returned
GenerateOk ==
    /\ rag_pc = "pq_prompted"
    /\ result' = GenerationResult([kind |-> "content", prompt |-> prompt])
    /\ generate_failed' = FALSE
    /\ generate_calls' = generate_calls + 1
    /\ rag_pc' = "pq_returned"
    /\ UNCHANGED <<corpus, query, n_results, snippets, prompt_calls, prompt>>
    /\ UNCHANGED <<verifyVars, classifierVars>>

\* lines 242-243, 278-285: ollama.chat raises; generate_code catches the
\* exception and returns a message, which process_query returns as the code
GenerateFails ==
    /\ rag_pc = "pq_prompted"
    /\ result' = GenerationResult([kind |-> "error_message"])
    /\ generate_failed' = TRUE
    /\ generate_calls' = generate_calls + 1
    /\ rag_pc' = "pq_returned"
    /\ UNCHANGED <<corpus, query, n_results, snippets, prompt_calls, prompt>>
    /\ UNCHANGED <<verifyVars, classifierVars>>

\* the caller has the result; the next question may be asked
ProcessQueryDone ==
    /\ rag_pc = "pq_returned"
    /\ rag_pc' = "idle"
    /\ UNCHANGED <<corpus, query, n_results, snippets, prompt_calls, queryVars>>
    /\ UNCHANGED <<verifyVars, classifierVars>>

NextQuery ==
    \/ \E q \in QueryDirs : ProcessQueryRetrieve(q)
    \/ ProcessQueryPrompt
    \/ GenerateOk
    \/ GenerateFails
    \/ ProcessQueryDone

SpecQuery == InitRag /\ [][NextQuery]_vars

\* C15: the persistent corpus is never mutated after its batch load: no step
\* of retrieval or of process_query changes the units of the corpus.
C15_CorpusReadOnly ==
    [][corpus' = corpus]_vars

\* a process_query that retrieved examples from a corpus of several units
C15_Witness ==
    /\ rag_pc = "pq_returned"
    /\ Len(corpus) >= 2
    /\ snippets # <<>>
    /\ result.retrieved_snippets = snippets

\* C16: a failure of the generation backend is never masked: process_query
\* does not return a GenerationResult when its generate call failed.
C16_FailureSurfaces ==
    rag_pc = "pq_returned" => ~generate_failed

(***************************************************************************)
(* api_verify on the text of the uploaded file                             *)
(* A text is a sequence of characters: an upper-case letter, a lower-case  *)
(* letter, a full stop and a blank.                                        *)
(***************************************************************************)
MaxChars == 5

Chars == {"A", "b", ".", " "}
Texts(n) == UNION {[1..len -> Chars] : len \in 0..n}

DocumentTexts == Texts(MaxChars)

WordChar(c) == c \in {"A", "b"}

\* str.strip()
Strip(text) ==
    LET inked == {i \in 1..Len(text) : text[i] \notin {" ", "\n"}}
    IN  IF inked = {} THEN <<>>
        ELSE SubSeq(text,
                    CHOOSE i \in inked : \A j \in inked : i <= j,
                    CHOOSE i \in inked : \A j \in inked : j <= i)

\* line 66: the pattern (?<!\w\.\w.)(?<![A-Z][a-z]\.)(?<=\.|\?|\!)\s matches
\* the character at position i
SplitPoint(text, i) ==
    /\ text[i] = " "
    /\ i > 1 /\ text[i - 1] = "."
    /\ ~(i > 3 /\ text[i - 3] = "A" /\ text[i - 2] = "b" /\ text[i - 1] = ".")
    /\ ~(i > 4 /\ WordChar(text[i - 4]) /\ text[i - 3] = "."
               /\ WordChar(text[i - 2]))

\* re.split: the pieces of the text between the matches, from position start
RECURSIVE SplitFrom(_, _)
SplitFrom(text, start) ==
    LET points == {i \in start..Len(text) : SplitPoint(text, i)}
    IN  IF points = {} THEN <<SubSeq(text, start, Len(text))>>
        ELSE LET i == CHOOSE p \in points : \A r \in points : p <= r
             IN  <<SubSeq(text, start, i - 1)>> \o SplitFrom(text, i + 1)

\* line 69: [s.strip() for s in sentences if s.strip()]
RECURSIVE StripAndFilter(_)
StripAndFilter(pieces) ==
    IF pieces = <<>> THEN <<>>
    ELSE (IF Strip(Head(pieces)) # <<>> THEN <<Strip(Head(pieces))>> ELSE <<>>)
         \o StripAndFilter(Tail(pieces))

\* lines 66-69: the sentences of a text
Sentences(text) == StripAndFilter(SplitFrom(Strip(text), 1))

\* line 83: model.encode, a sentence to the direction of its embedding
Encode(sentences) == [i \in 1..Len(sentences) |-> Len(sentences[i]) % 6]

\* a check of the text as it was uploaded, without trimming it
DocumentIsEmptyUntrimmed(text) == text = <<>>

\* line 206: not document_text.strip()
DocumentIsEmpty(text) == Strip(text) = <<>>

\* lines 199-216: api_verify from the decoded text to the first access to
\* the client; 400 for an empty document, TypeError when process_document
\* returned the empty list, else find_semantic_matches is entered
ApiVerifyText(t, text) ==
    /\ pc[t] = "idle"
    /\ serving
    /\ requests < MaxRequests
    /\ requests' = requests + 1
    /\ document_text' = [document_text EXCEPT ![t] = text]
    /\ IF DocumentIsEmpty(text)
       THEN /\ pc' = [pc EXCEPT ![t] = "rejected"]
            /\ UNCHANGED <<temp_collection, document_data, args,
                           doc_collection, results, raised_by>>
       ELSE IF Sentences(text) = <<>>
       THEN /\ pc' = [pc EXCEPT ![t] = "raised"]
            /\ raised_by' = [raised_by EXCEPT ![t] = "subscript"]
            /\ UNCHANGED <<temp_collection, document_data, args,
                           doc_collection, results>>
       ELSE GetOrCreate(t, Encode(Sentences(text)), 3, 1)
    /\ UNCHANGED responses
    /\ UNCHANGED <<startupVars, ragVars, classifierVars>>

\* the request is over: 200 with the ranking, 400, or the 500 of an
\* uncaught exception
ApiClose(t) ==
    /\ pc[t] \in {"returned", "raised", "rejected"}
    /\ Reset(t)
    /\ UNCHANGED <<temp_collection, requests, responses>>
    /\ UNCHANGED <<startupVars, ragVars, classifierVars>>

NextApi ==
    \/ \E text \in DocumentTexts : ApiVerifyText("t1", text)
    \/ AddOk("t1")
    \/ AddRejected("t1")
    \/ QueryOk("t1")
    \/ QueryFails("t1")
    \/ DeleteOk("t1")
    \/ ApiClose("t1")

SpecApi == InitVerify /\ [][NextApi]_vars

\* C17: a request whose document is empty after trimming, or yields no
\* sentence, is answered with the empty-document error (400): it gets no
\* temporary collection and ends with no other error.
C17_EmptyDocumentRejected ==
    \A t \in Threads :
        (/\ pc[t] # "idle"
         /\ \/ \A i \in 1..Len(document_text[t]) : document_text[t][i] = " "
            \/ Sentences(document_text[t]) = <<>>)
        => /\ pc[t] = "rejected"
           /\ doc_collection[t] = 0
           /\ document_data[t] = <<>>
           /\ raised_by[t] = "none"

\* a request whose document holds blanks only has been answered with 400
C17_Witness ==
    /\ pc["t1"] = "rejected"
    /\ Len(document_text["t1"]) >= 2
    /\ doc_collection["t1"] = 0

\* C18: a failure of the cleanup after the result has been computed does not
\* fail the request: a call that has computed its ranking is about to
\* return it or has returned it, it never ends with an exception.
C18_CleanupFailureKeepsResult ==
    \A t \in Threads :
        results[t].set => pc[t] \in {"queried", "returned"}

(***************************************************************************)
(* The ranked list of each keyword                                         *)
(***************************************************************************)
\* C19: the ranked list of every keyword has at most
\* min(num_top_sentences, number of sentences) entries, and exactly one entry
\* when the document has one sentence, whatever num_top_sentences is.
C19_ListLengths ==
    \A t \in Threads :
        pc[t] = "returned" =>
            \A i \in 1..Len(results[t].keyword_details) :
                LET e == results[t].keyword_details[i]
                IN  /\ Len(e.all_distances) = Len(e.all_matched_sentences)
                    /\ Len(e.all_matched_sentences)
                          <= Min(args[t].num_top_sentences, Len(document_data[t]))
                    /\ Len(document_data[t]) = 1
                          => Len(e.all_matched_sentences) = 1

\* a call for a document of one sentence asked for three sentences a keyword
\* and returned lists of one entry
C19_Witness ==
    \E t \in Threads :
        /\ pc[t] = "returned"
        /\ Len(document_data[t]) = 1
        /\ args[t].num_top_sentences = 3
        /\ Len(results[t].keyword_details) = NumKeywords
        /\ Len(results[t].keyword_details[1].all_matched_sentences) = 1

\* the entry e lists sentences of the document doc, nearest to the direction
\* q first and earlier sentence first among equally near ones, leaves out
\* only sentences ranked behind all it lists, and records its first as best
RankedList(e, doc, q) ==
    LET m == Len(e.all_matched_sentences)
        n == Len(doc)
        Dist(r) == CosineDistance(q, doc[r])
    IN  /\ Len(e.all_distances) = m
        /\ m >= 1
        /\ \E p \in [1..m -> 1..n] :
              /\ \A j \in 1..m :
                    /\ e.all_matched_sentences[j] = doc[p[j]]
                    /\ e.all_distances[j] = Dist(p[j])
              /\ \A j, k \in 1..m :
                    j < k => \/ Dist(p[j]) < Dist(p[k])
                             \/ Dist(p[j]) = Dist(p[k]) /\ p[j] < p[k]
              /\ \A r \in 1..n :
                    (\A j \in 1..m : p[j] # r)
                        => \A j \in 1..m : \/ Dist(p[j]) < Dist(r)
                                           \/ Dist(p[j]) = Dist(r) /\ p[j] < r
        /\ e.top_match_sentence = e.all_matched_sentences[1]
        /\ e.top_match_distance = e.all_distances[1]
        /\ \A r \in 1..n : e.top_match_distance <= Dist(r)

\* C20: for every keyword the ranked list holds sentences of the request's
\* document in ascending distance, ties in the order the sentences were
\* inserted, and the recorded best match is the entry of lowest distance: no
\* sentence of the document is strictly closer.
C20_ListOrderAndBest ==
    \A t \in Threads :
        pc[t] = "returned" =>
            \A i \in 1..Len(results[t].keyword_details) :
                RankedList(results[t].keyword_details[i], Documents(t),
                           KeywordDir(results[t].keyword_details[i].keyword))

(***************************************************************************)
(* Embeddings of norm zero in find_semantic_matches and in                 *)
(* retrieve_similar_snippets                                               *)
(***************************************************************************)
ZeroSentenceDirs == {1, ZeroVector}
ZeroCorpusDirs == {0, ZeroVector}

InitDistance ==
    /\ temp_collection = NoCollection
    /\ pc = [t \in Threads |-> "idle"]
    /\ document_data = [t \in Threads |-> <<>>]
    /\ args = [t \in Threads |-> NoArgs]
    /\ doc_collection = [t \in Threads |-> 0]
    /\ results = [t \in Threads |-> NoResult]
    /\ requests = 0
    /\ responses = {}
    /\ raised_by = [t \in Threads |-> "none"]
    /\ document_text = [t \in Threads |-> <<>>]
    /\ k2_collection = 1
    /\ keyword_collection = KeywordCollection
    /\ init_pc = "done"
    /\ serving = TRUE
    /\ corpus \in CorporaOver(ZeroCorpusDirs, MaxCorpus)
    /\ rag_pc = "idle"
    /\ query = 0
    /\ n_results = 0
    /\ snippets = <<>>
    /\ prompt_calls = <<>>
    /\ prompt = <<>>
    /\ generate_failed = FALSE
    /\ result = NoGenerationResult
    /\ generate_calls = 0
    /\ server = "keywords"
    /\ training_data = <<>>
    /\ training_data_file = NoFile
    /\ model_file = FALSE
    /\ temp_files = {}
    /\ built = FALSE
    /\ response = NoResponse

NextDistance ==
    \/ \E doc \in DocsOver(ZeroSentenceDirs, MaxSentences) :
          CallMatches("t1", doc, 3, 3)
    \/ AddOk("t1")
    \/ QueryOk("t1")
    \/ DeleteOk("t1")
    \/ ReturnMatches("t1")
    \/ \E q \in ZeroCorpusDirs, n \in 1..MaxK : RetrieveSimilarSnippets(q, n)

SpecDistance == InitDistance /\ [][NextDistance]_vars

C24_PromptByMatches ==
    rag_pc = "pq_returned" =>
        /\ snippets # <<>> <=> prompt = build_rag_prompt(query, snippets)
        /\ snippets = <<>> <=> prompt = build_simple_prompt(query)
        /\ prompt[1].kind = (IF snippets = <<>> THEN "simple" ELSE "preamble")
        /\ generate_calls = 1
        /\ result.set
        /\ result.query = query
        /\ result.retrieved_snippets
              = retrieve_similar_snippets(corpus, query, TOP_K_RESULTS)

\* a process_query has returned without examples on a corpus that is not empty
C24_Witness ==
    /\ rag_pc = "pq_returned"
    /\ corpus # <<>>
    /\ snippets = <<>>
    /\ result.retrieved_snippets = <<>>
    /\ prompt = build_simple_prompt(query)

(***************************************************************************)
(* src/keywords/server.py and src/fasttext/server.py: the keyword          *)
(* classifier API.  Both servers keep the dict training_data, its JSON     *)
(* file and a model file; `server` says which of the two is running.       *)
(* A handler is an async function that never awaits after reading its      *)
(* request, so handlers run one at a time and each is one action.          *)
(* A text is a sequence of characters: a letter, a blank, a newline.       *)
(***************************************************************************)
MaxExamples == 2

Servers == {"keywords", "fasttext"}
ClassifierKeywords == {"k1", "k2"}
SentencePool == {<<"a">>, <<" ">>}
SentenceLists(n) == UNION {[1..len -> SentencePool] : len \in 0..n}

\* text.replace('\n', ' ')
ReplaceNewlines(text) ==
    [i \in 1..Len(text) |-> IF text[i] = "\n" THEN " " ELSE text[i]]

\* keywords/server.py: text.replace('\n', ' ').strip()
CleanStrip(text) == Strip(ReplaceNewlines(text))

\* str.split(): the words of a text, separated by runs of whitespace
RECURSIVE SplitWords(_, _)
SplitWords(text, word) ==
    IF text = <<>>
    THEN (IF word = <<>> THEN <<>> ELSE <<word>>)
    ELSE IF Head(text) \in {" ", "\n"}
    THEN (IF word = <<>> THEN <<>> ELSE <<word>>) \o SplitWords(Tail(text), <<>>)
    ELSE SplitWords(Tail(text), Append(word, Head(text)))

\* ' '.join(words)
RECURSIVE JoinWords(_)
JoinWords(words) ==
    IF words = <<>> THEN <<>>
    ELSE IF Len(words) = 1 THEN words[1]
    ELSE words[1] \o <<" ">> \o JoinWords(Tail(words))

\* fasttext/server.py: ' '.join(text.replace('\n', ' ').split())
CleanSplitJoin(text) == JoinWords(SplitWords(ReplaceNewlines(text), <<>>))

CleanText(srv, text) ==
    IF srv = "keywords" THEN CleanStrip(text) ELSE CleanSplitJoin(text)

(***************************************************************************)
(* The dict training_data, as the sequence of its items                    *)
(***************************************************************************)
HasKeyword(store, k) == \E i \in 1..Len(store) : store[i].keyword = k

\* training_data[k]
SentencesOf(store, k) ==
    store[CHOOSE i \in 1..Len(store) : store[i].keyword = k].sentences

\* as AddEntry, but the sentences of a known keyword are replaced
AddEntryReplacing(store, data) ==
    IF HasKeyword(store, data.keyword)
    THEN [i \in 1..Len(store) |->
            IF store[i].keyword = data.keyword
            THEN [store[i] EXCEPT !.sentences = data.sentences]
            ELSE store[i]]
    ELSE Append(store, data)

\* if data.keyword in training_data: extend, else: new entry
AddEntry(store, data) ==
    IF HasKeyword(store, data.keyword)
    THEN [i \in 1..Len(store) |->
            IF store[i].keyword = data.keyword
            THEN [store[i] EXCEPT !.sentences = @ \o data.sentences]
            ELSE store[i]]
    ELSE Append(store, data)

\* the loop of add_batch_training_data
RECURSIVE AddAll(_, _)
AddAll(store, batch) ==
    IF batch = <<>> THEN store
    ELSE AddAll(AddEntry(store, Head(batch)), Tail(batch))

\* as DeleteEntry, but the whole store is cleared
DeleteEntryAll(store, k) == <<>>

\* del training_data[keyword]
DeleteEntry(store, k) == SelectSeq(store, LAMBDA e : e.keyword # k)

\* json.dump(training_data): the members of the object, key and value
JsonDumpStore(store) ==
    [i \in 1..Len(store) |-> <<store[i].keyword, store[i].sentences>>]

\* json.load: a dict of the members; a repeated key keeps its first place
\* and takes the last value
RECURSIVE JsonLoadStore(_)
JsonLoadStore(members) ==
    IF members = <<>> THEN <<>>
    ELSE LET rest == JsonLoadStore(SubSeq(members, 1, Len(members) - 1))
             last == members[Len(members)]
         IN  IF HasKeyword(rest, last[1])
             THEN [i \in 1..Len(rest) |->
                     IF rest[i].keyword = last[1]
                     THEN [rest[i] EXCEPT !.sentences = last[2]]
                     ELSE rest[i]]
             ELSE Append(rest, [keyword |-> last[1], sentences |-> last[2]])

\* save_training_data
SavedFile(store) == [exists |-> TRUE, content |-> JsonDumpStore(store)]

\* load_training_data at startup
LoadedStore(file) == IF file.exists THEN JsonLoadStore(file.content) ELSE <<>>

\* sum(len(sentences) for sentences in training_data.values())
RECURSIVE SumOfValueLengths(_)
SumOfValueLengths(store) ==
    IF store = <<>> THEN 0
    ELSE Len(Head(store).sentences) + SumOfValueLengths(Tail(store))

\* keywords/server.py line 124: sum(len(sentences) for sentences in
\* training_data.items()); an item is a (key, value) pair, of length 2
RECURSIVE SumOfItemLengths(_)
SumOfItemLengths(store) ==
    IF store = <<>> THEN 0
    ELSE Len(<<Head(store).keyword, Head(store).sentences>>)
         + SumOfItemLengths(Tail(store))

\* total_examples as train_model counts it
BuildTotalExamples(srv, store) ==
    IF srv = "keywords" THEN SumOfItemLengths(store) ELSE SumOfValueLengths(store)

\* create_fasttext_training_file: one line a sentence that is not blank
RECURSIVE TrainingLines(_, _)
TrainingLines(srv, store) ==
    IF store = <<>> THEN <<>>
    ELSE LET e == Head(store)
             clean == [j \in 1..Len(e.sentences) |-> CleanText(srv, e.sentences[j])]
         IN  [j \in 1..Len(SelectSeq(clean, LAMBDA c : c # <<>>)) |->
                 [label |-> e.keyword,
                  text |-> SelectSeq(clean, LAMBDA c : c # <<>>)[j]]]
             \o TrainingLines(srv, Tail(store))

(***************************************************************************)
(* The handlers of the training store                                      *)
(***************************************************************************)
TrainingDataInputs ==
    [keyword : ClassifierKeywords, sentences : SentenceLists(MaxExamples)]

BatchItems == [keyword : ClassifierKeywords, sentences : SentenceLists(1)]
BatchInputs == UNION {[1..len -> BatchItems] : len \in 0..2}

\* no list of the store is longer than MaxExamples
WithinBound(store) ==
    \A i \in 1..Len(store) : Len(store[i].sentences) <= MaxExamples

InitClassifier ==
    /\ temp_collection = NoCollection
    /\ pc = [t \in Threads |-> "idle"]
    /\ document_data = [t \in Threads |-> <<>>]
    /\ args = [t \in Threads |-> NoArgs]
    /\ doc_collection = [t \in Threads |-> 0]
    /\ results = [t \in Threads |-> NoResult]
    /\ requests = 0
    /\ responses = {}
    /\ raised_by = [t \in Threads |-> "none"]
    /\ document_text = [t \in Threads |-> <<>>]
    /\ k2_collection = 1
    /\ keyword_collection = KeywordCollection
    /\ init_pc = "done"
    /\ serving = TRUE
    /\ corpus = <<>>
    /\ rag_pc = "idle"
    /\ query = 0
    /\ n_results = 0
    /\ snippets = <<>>
    /\ prompt_calls = <<>>
    /\ prompt = <<>>
    /\ generate_failed = FALSE
    /\ result = NoGenerationResult
    /\ generate_calls = 0
    /\ server \in Servers
    /\ training_data = <<>>
    /\ training_data_file = NoFile
    /\ model_file = FALSE
    /\ temp_files = {}
    /\ built = FALSE
    /\ response = NoResponse

\* POST /train/add
AddTrainingData(data) ==
    /\ WithinBound(AddEntry(training_data, data))
    /\ IF data.sentences = <<>>
       THEN /\ response' = [op |-> "add", status |-> 400,
                            keyword |-> data.keyword, sentences |-> data.sentences,
                            detail |-> "At least one sentence is required"]
            /\ UNCHANGED <<training_data, training_data_file>>
       ELSE /\ training_data' = AddEntry(training_data, data)
            /\ training_data_file' = SavedFile(AddEntry(training_data, data))
            /\ response' = [op |-> "add", status |-> 200,
                            keyword |-> data.keyword, sentences |-> data.sentences,
                            total_examples |->
                               Len(SentencesOf(AddEntry(training_data, data),
                                               data.keyword))]
    /\ UNCHANGED <<server, model_file, temp_files, built>>
    /\ UNCHANGED <<verifyVars, ragVars>>

\* POST /train/batch
AddBatchTrainingData(batch) ==
    /\ WithinBound(AddAll(training_data, batch))
    /\ training_data' = AddAll(training_data, batch)
    /\ training_data_file' = SavedFile(AddAll(training_data, batch))
    /\ response' = [op |-> "batch", status |-> 200,
                    total_keywords |-> Len(AddAll(training_data, batch))]
    /\ UNCHANGED <<server, model_file, temp_files, built>>
    /\ UNCHANGED <<verifyVars, ragVars>>

\* as DeleteKeyword, but the file is not written
DeleteKeywordUnsaved(k) ==
    /\ IF ~HasKeyword(training_data, k)
       THEN /\ response' = [op |-> "delete", status |-> 404, keyword |-> k]
            /\ UNCHANGED <<training_data, training_data_file>>
       ELSE /\ training_data' = DeleteEntry(training_data, k)
            /\ UNCHANGED training_data_file
            /\ response' = [op |-> "delete", status |-> 200, keyword |-> k]
    /\ UNCHANGED <<server, model_file, temp_files, built>>
    /\ UNCHANGED <<verifyVars, ragVars>>

\* DELETE /keywords/{keyword}
DeleteKeyword(k) ==
    /\ IF ~HasKeyword(training_data, k)
       THEN /\ response' = [op |-> "delete", status |-> 404, keyword |-> k]
            /\ UNCHANGED <<training_data, training_data_file>>
       ELSE /\ training_data' = DeleteEntry(training_data, k)
            /\ training_data_file' = SavedFile(DeleteEntry(training_data, k))
            /\ response' = [op |-> "delete", status |-> 200, keyword |-> k]
    /\ UNCHANGED <<server, model_file, temp_files, built>>
    /\ UNCHANGED <<verifyVars, ragVars>>

\* the process is started again: load_training_data at startup
Restart ==
    /\ training_data' = LoadedStore(training_data_file)
    /\ response' = [op |-> "restart", status |-> 0]
    /\ UNCHANGED <<server, training_data_file, model_file, temp_files, built>>
    /\ UNCHANGED <<verifyVars, ragVars>>

(***************************************************************************)
(* /train/build                                                            *)
(***************************************************************************)
\* what the training backend does with a training file: "ok" it trains and
\* writes the model, "fails" it raises or exits with an error, "no_file" the
\* command ends normally and leaves no model file
Backends == {"ok", "fails", "no_file"}

TRAIN_FILE == "train.txt"
INPUT_FILE == "input_pid.txt"

\* the model is trained and written: the backend works and the training file
\* has at least one line
Trained(srv, store, backend) ==
    backend = "ok" /\ TrainingLines(srv, store) # <<>>

\* the status of train_model for a store that is not empty
BuildStatus(srv, store, model, backend) ==
    IF srv = "keywords"
    THEN (IF Trained(srv, store, backend) THEN 200 ELSE 500)
    ELSE IF backend = "fails" \/ TrainingLines(srv, store) = <<>> THEN 500
    ELSE IF model \/ Trained(srv, store, backend) THEN 200
    ELSE 500

\* as TempFilesAfterBuild, but the file is removed only when the build succeeded
TempFilesAfterBuildOnSuccess(srv, files, status) ==
    IF srv = "fasttext" /\ status = 200
    THEN files \ {TRAIN_FILE}
    ELSE files \cup {TRAIN_FILE}

\* keywords/server.py writes TEMP_TRAIN_FILE and leaves it; fasttext/server.py
\* removes its train.txt in the finally block
TempFilesAfterBuild(srv, files, status) ==
    IF srv = "fasttext"
    THEN files \ {TRAIN_FILE}
    ELSE files \cup {TRAIN_FILE}

\* POST /train/build
TrainModel(backend) ==
    /\ server = "keywords" => backend # "no_file"
    /\ IF training_data = <<>>
       THEN /\ response' = [op |-> "build", status |-> 400,
                            detail |-> "No training data available"]
            /\ UNCHANGED <<model_file, temp_files, built>>
       ELSE LET status == BuildStatus(server, training_data, model_file, backend)
            IN  /\ model_file' = (model_file \/ Trained(server, training_data, backend))
                /\ temp_files' = TempFilesAfterBuild(server, temp_files, status)
                /\ built' = (built \/ status = 200)
                /\ response' =
                      IF status = 200
                      THEN [op |-> "build", status |-> 200,
                            total_keywords |-> Len(training_data),
                            total_examples |->
                               BuildTotalExamples(server, training_data)]
                      ELSE [op |-> "build", status |-> 500,
                            detail |-> "Training failed"]
    /\ UNCHANGED <<server, training_data, training_data_file>>
    /\ UNCHANGED <<verifyVars, ragVars>>

(***************************************************************************)
(* /predict/text and /predict                                              *)
(***************************************************************************)
PredictTexts ==
    {<<>>, <<" ">>, <<"\n">>, <<"a">>, <<" ", "a", "\n">>, <<"a", "\n", "a">>}

\* an uploaded file: its bytes decode as UTF-8 to the text, or they do not
\* (then text is what a one-byte encoding makes of them)
Uploads ==
    [decodable : {TRUE}, text : PredictTexts]
    \cup {[decodable |-> FALSE, text |-> <<"a">>]}

\* the outcome of a prediction whose input has been read as text
\* as PredictOutcome, without the test that the model file exists
PredictOutcomeUnchecked(srv, model, text, backend, empty_detail) ==
    IF srv = "keywords"
    THEN IF CleanStrip(text) = <<>>
         THEN [status |-> 500, detail |-> "Prediction failed", reached |-> FALSE]
         ELSE IF backend = "ok"
         THEN [status |-> 200, detail |-> "", reached |-> TRUE]
         ELSE [status |-> 500, detail |-> "Prediction failed", reached |-> TRUE]
    ELSE IF Strip(text) = <<>>
         THEN [status |-> 400, detail |-> empty_detail, reached |-> FALSE]
         ELSE IF backend = "ok"
         THEN [status |-> 200, detail |-> "", reached |-> TRUE]
         ELSE [status |-> 500, detail |-> "FastText command failed",
               reached |-> TRUE]

\* keywords/server.py tests the model file first and raises the 400 of an
\* empty text inside the try, where `except Exception` turns it into a 500;
\* fasttext/server.py tests the text first, then predict_with_fasttext tests
\* the model file, and `except HTTPException: raise` keeps the status
PredictOutcome(srv, model, text, backend, empty_detail) ==
    IF srv = "keywords"
    THEN IF ~model
         THEN [status |-> 400, detail |-> "Model not trained yet", reached |-> FALSE]
         ELSE IF CleanStrip(text) = <<>>
         THEN [status |-> 500, detail |-> "Prediction failed", reached |-> FALSE]
         ELSE IF backend = "ok"
         THEN [status |-> 200, detail |-> "", reached |-> TRUE]
         ELSE [status |-> 500, detail |-> "Prediction failed", reached |-> TRUE]
    ELSE IF Strip(text) = <<>>
         THEN [status |-> 400, detail |-> empty_detail, reached |-> FALSE]
         ELSE IF ~model
         THEN [status |-> 400, detail |-> "Model not trained yet", reached |-> FALSE]
         ELSE IF backend = "ok"
         THEN [status |-> 200, detail |-> "", reached |-> TRUE]
         ELSE [status |-> 500, detail |-> "FastText command failed",
               reached |-> TRUE]

\* predict_with_fasttext writes its input file once the model file is found
\* and removes it in the finally block; the keywords server writes no file
TempFilesAfterPredict(srv, files, outcome) ==
    IF srv = "fasttext" /\ outcome.reached
    THEN (files \cup {INPUT_FILE}) \ {INPUT_FILE}
    ELSE files

\* the text the model is given: the keywords server passes clean_text, the
\* FastText command reads the input file this request has just written
ModelInput(srv, text, outcome) ==
    IF outcome.reached THEN CleanText(srv, text) ELSE <<>>

\* POST /predict/text
PredictFromText(text, backend) ==
    /\ backend # "no_file"
    /\ LET outcome == PredictOutcome(server, model_file, text, backend, "Empty text")
       IN  /\ response' = [op |-> "predict_text", status |-> outcome.status,
                           detail |-> outcome.detail, reached |-> outcome.reached,
                           text |-> text, decodable |-> TRUE,
                           backend |-> backend,
                           input |-> ModelInput(server, text, outcome)]
           /\ temp_files' = TempFilesAfterPredict(server, temp_files, outcome)
    /\ UNCHANGED <<server, training_data, training_data_file, model_file, built>>
    /\ UNCHANGED <<verifyVars, ragVars>>

\* POST /predict with a text file
PredictKeywords(upload, backend) ==
    /\ backend # "no_file"
    /\ LET outcome ==
              IF server = "keywords" /\ model_file /\ ~upload.decodable
              THEN [status |-> 400, detail |-> "File must be UTF-8 encoded text",
                    reached |-> FALSE]
              ELSE IF server = "fasttext" /\ upload.text = <<>>
              THEN [status |-> 400, detail |-> "Empty file", reached |-> FALSE]
              ELSE PredictOutcome(server, model_file, upload.text, backend,
                                  "Empty document")
       IN  /\ response' = [op |-> "predict", status |-> outcome.status,
                           detail |-> outcome.detail, reached |-> outcome.reached,
                           text |-> upload.text,
                           decodable |-> upload.decodable, backend |-> backend,
                           input |-> ModelInput(server, upload.text, outcome)]
           /\ temp_files' = TempFilesAfterPredict(server, temp_files, outcome)
    /\ UNCHANGED <<server, training_data, training_data_file, model_file, built>>
    /\ UNCHANGED <<verifyVars, ragVars>>

NextClassifier ==
    \/ \E data \in TrainingDataInputs : AddTrainingData(data)
    \/ \E batch \in BatchInputs : AddBatchTrainingData(batch)
    \/ \E k \in ClassifierKeywords : DeleteKeyword(k)
    \/ \E backend \in Backends : TrainModel(backend)
    \/ \E text \in PredictTexts, backend \in Backends : PredictFromText(text, backend)
    \/ \E upload \in Uploads, backend \in Backends : PredictKeywords(upload, backend)
    \/ Restart

SpecClassifier == InitClassifier /\ [][NextClassifier]_vars

(***************************************************************************)
(* Claims about the keyword classifier API                                 *)
(***************************************************************************)
PredictOps == {"predict", "predict_text"}
ModelNotTrained == "Model not trained yet"

C23_BuildCounts ==
    (response.op = "build" /\ response.status = 200) =>
        /\ response.total_examples = SumOfValueLengths(training_data)
        /\ response.total_keywords = Len(training_data)

EmptyDetails == {"Empty document", "Empty text", "Empty file"}

\* C25: a prediction on an empty or blank document or text, issued while a
\* model file exists, is rejected with 400 and an 'Empty ...' detail, and the
\* model is not reached.
C25_BlankTextRejected ==
    ( /\ response.op \in PredictOps
      /\ model_file
      /\ CleanStrip(response.text) = <<>> )
    => /\ response.status = 400
       /\ response.detail \in EmptyDetails
       /\ ~response.reached

\* training_data.get(k, [])
StoredSentences(store, k) ==
    IF HasKeyword(store, k) THEN SentencesOf(store, k) ELSE <<>>

\* every keyword but k has the same list, or is absent, in both stores
OthersUnchanged(before, after, k) ==
    \A other \in ClassifierKeywords \ {k} :
        /\ HasKeyword(after, other) = HasKeyword(before, other)
        /\ StoredSentences(after, other) = StoredSentences(before, other)

\* C26: /train/add with a sentence list that is not empty puts the sentences,
\* in order, after those already stored for the keyword (or creates the
\* keyword with exactly those sentences), leaves every other keyword's list
\* as it was, and returns the length of the keyword's list as total_examples.
C26_AddAppends ==
    [][ (response'.op = "add" /\ response'.status = 200) =>
            /\ response'.sentences # <<>>
            /\ HasKeyword(training_data', response'.keyword)
            /\ StoredSentences(training_data', response'.keyword)
                 = StoredSentences(training_data, response'.keyword)
                   \o response'.sentences
            /\ OthersUnchanged(training_data, training_data', response'.keyword)
            /\ response'.total_examples
                 = Len(StoredSentences(training_data', response'.keyword))
      ]_vars

C26_Witness ==
    /\ response.op = "add"
    /\ response.status = 200
    /\ Len(training_data) = 2
    /\ Len(StoredSentences(training_data, response.keyword))
         > Len(response.sentences)

\* C27: a delete of a keyword that is not stored returns 404 and leaves the
\* store and the persisted file as they were; a delete of a stored keyword
\* returns 200, removes that keyword with its sentences and no other, so a
\* further delete of it finds it absent and returns 404.
C27_DeleteExactlyOne ==
    [][ response'.op = "delete" =>
            /\ response'.status = (IF HasKeyword(training_data, response'.keyword)
                                   THEN 200 ELSE 404)
            /\ response'.status = 404 =>
                   UNCHANGED <<training_data, training_data_file>>
            /\ response'.status = 200 =>
                   /\ ~HasKeyword(training_data', response'.keyword)
                   /\ OthersUnchanged(training_data, training_data',
                                      response'.keyword)
      ]_vars

C27_Witness ==
    /\ response.op = "delete"
    /\ response.status = 200
    /\ Len(training_data) = 1
    /\ training_data[1].sentences # <<>>

\* C28: every keyword of the training store has at least one sentence, and
\* a store that is not empty gives a training file that is not empty.
C28_EveryKeywordHasSentence ==
    /\ \A i \in 1..Len(training_data) : training_data[i].sentences # <<>>
    /\ training_data # <<>> => TrainingLines(server, training_data) # <<>>

\* what a restart would load equals the store in memory
FileMatchesStore ==
    LoadedStore(training_data_file) = training_data

\* C29: after every completed /train/add, /train/batch and delete the
\* persisted file equals the store in memory, so a restart that reloads the
\* file restores the store as it was after the last completed operation; an
\* operation rejected with 400 or 404 changes neither the store nor the file.
C29_FileEqualsStore ==
    [][ /\ FileMatchesStore'
        /\ response'.op \in {"add", "batch", "delete"}
              => (response'.status \in {400, 404}
                    => UNCHANGED <<training_data, training_data_file>>)
        /\ response'.op = "restart" => UNCHANGED training_data
      ]_vars

C29_Witness ==
    /\ response.op = "restart"
    /\ Len(training_data) = 2
    /\ training_data_file.exists
    /\ \E i \in 1..2 : Len(training_data[i].sentences) = 2

====
